---- MODULE Spec2Model ----
(***************************************************************************)
(* A model of the event viewer's acquisition pipeline: the log source      *)
(* adapter (event_log.rs), the three importers, the filter/sort stage and  *)
(* the live ingestion between the polling thread and the UI thread         *)
(* (main.rs).                                                              *)
(*                                                                         *)
(* Strings are TLA+ strings.  A point in time is an integer count of       *)
(* sub-second units; SubPerSec of them make one second and DayLen of them  *)
(* one calendar day.  The text of a timestamp is abstracted: "<n>Z" stands *)
(* for an RFC 3339 text denoting instant n, "<n>" for the space-separated  *)
(* naive local form denoting n.                                            *)
(*                                                                         *)
(* An XML document is the sequence of events quick_xml's reader yields for *)
(* it (with trim_text(true)): Start, End, Empty, Text, CData, or Err for a *)
(* structural error.                                                       *)
(***************************************************************************)
EXTENDS Integers, Sequences, FiniteSets, TLC

\* ------------------------------------------------------------- bounds
MaxClock == 0          \* the wall clock runs over 0..MaxClock
MaxDocTime == 3        \* the SystemTime of a stored event is 0 or MaxDocTime
MaxLogLines == 2       \* entries a log source holds at most
MaxPolls == 2          \* poll ticks of the background thread
SubPerSec == 2         \* sub-second units per second
DayLen == 4            \* sub-second units per calendar day
MaxRow == 0            \* the table rows 0..MaxRow are the ones clicked

\* -------------------------------------------------- program constants
PollCount == 50        \* main.rs:67   query_events(.., 50)
PageSize == 100        \* main.rs:83   page_size: 100
DescMax == 200         \* main.rs:303  description.chars().take(200)
U16Max == 65535        \* event_log.rs:12  event_id: u16

\* ------------------------------------------------------------ helpers
Min(a, b) == IF a <= b THEN a ELSE b

Last(s) == s[Len(s)]

\* str::contains: the needle occurs as a contiguous substring.
Contains(s, sub) ==
    \E i \in 0..(Len(s) - Len(sub)) : SubSeq(s, i + 1, i + Len(sub)) = sub

\* Vec<String>::contains
VecContains(v, x) == \E i \in 1..Len(v) : v[i] = x

\* [String]::join(sep)
RECURSIVE Join(_, _)
Join(v, sep) ==
    IF v = <<>> THEN ""
    ELSE IF Len(v) = 1 THEN v[1]
         ELSE v[1] \o sep \o Join(Tail(v), sep)

\* chars().take(n).collect()
Take(s, n) == SubSeq(s, 1, Min(n, Len(s)))

Digits == <<"0", "1", "2", "3", "4", "5", "6", "7", "8", "9">>

IsDigit(c) == \E d \in 1..10 : Digits[d] = c

DigitVal(c) == (CHOOSE d \in 1..10 : Digits[d] = c) - 1

\* Decimal value of a string of digits, or -1 once it exceeds max.
RECURSIVE DecimalFrom(_, _, _, _)
DecimalFrom(s, i, acc, max) ==
    IF i > Len(s) THEN acc
    ELSE LET v == acc * 10 + DigitVal(SubSeq(s, i, i))
         IN  IF v > max THEN -1 ELSE DecimalFrom(s, i + 1, v, max)

AllDigits(s) == Len(s) > 0 /\ \A i \in 1..Len(s) : IsDigit(SubSeq(s, i, i))

\* A parse that saturates at the largest u16 instead of failing.
ParseU16Saturating(s) ==
    LET body == IF Len(s) > 0 /\ SubSeq(s, 1, 1) = "+" THEN SubSeq(s, 2, Len(s)) ELSE s
    IN  IF AllDigits(body)
        THEN (IF DecimalFrom(body, 1, 0, U16Max) < 0 THEN U16Max
              ELSE DecimalFrom(body, 1, 0, U16Max))
        ELSE -1

\* str::parse::<u16>(): an optional '+', then digits, no overflow; -1 is Err.
ParseU16(s) ==
    LET body == IF Len(s) > 0 /\ SubSeq(s, 1, 1) = "+" THEN SubSeq(s, 2, Len(s)) ELSE s
    IN  IF AllDigits(body) THEN DecimalFrom(body, 1, 0, U16Max) ELSE -1

\* DateTime::parse_from_rfc3339: "<n>Z" denotes instant n; -1 is Err.
ParseRfc3339(s) ==
    IF Len(s) >= 2 /\ SubSeq(s, Len(s), Len(s)) = "Z" /\ AllDigits(SubSeq(s, 1, Len(s) - 1))
    THEN DecimalFrom(SubSeq(s, 1, Len(s) - 1), 1, 0, U16Max)
    ELSE -1

\* NaiveDateTime::parse_from_str(.., "%Y-%m-%d %H:%M:%S%.f"): "<n>"; -1 is Err.
ParseNaive(s) == IF AllDigits(s) THEN DecimalFrom(s, 1, 0, U16Max) ELSE -1

\* DateTime::timestamp(): whole seconds.
Timestamp(t) == t \div SubPerSec

\* DateTime::date_naive(): the calendar day.
DateNaive(t) == t \div DayLen

\* --------------------------------------------------------- EventRecord
EventRecord(log_name, time_created, event_id, level, source, user, computer, description, raw_xml) ==
    [log_name |-> log_name, time_created |-> time_created, event_id |-> event_id,
     level |-> level, source |-> source, user |-> user, computer |-> computer,
     description |-> description, raw_xml |-> raw_xml]

\* ------------------------------------------------- quick_xml events
Attr(key, value) == [key |-> key, value |-> value]

XmlStart(name, attrs) == [kind |-> "Start", name |-> name, attrs |-> attrs, text |-> ""]

XmlEmpty(name, attrs) == [kind |-> "Empty", name |-> name, attrs |-> attrs, text |-> ""]

XmlEnd(name) == [kind |-> "End", name |-> name, attrs |-> <<>>, text |-> ""]

XmlText(text) == [kind |-> "Text", name |-> "", attrs |-> <<>>, text |-> text]

XmlCData(text) == [kind |-> "CData", name |-> "", attrs |-> <<>>, text |-> text]

XmlErr == [kind |-> "Err", name |-> "", attrs |-> <<>>, text |-> ""]

\* The text of one reader event, attributes written name="value".
RECURSIVE RenderAttrs(_)
RenderAttrs(attrs) ==
    IF attrs = <<>> THEN ""
    ELSE " " \o Head(attrs).key \o "=\"" \o Head(attrs).value \o "\"" \o RenderAttrs(Tail(attrs))

RenderToken(t) ==
    CASE t.kind = "Start" -> "<" \o t.name \o RenderAttrs(t.attrs) \o ">"
      [] t.kind = "Empty" -> "<" \o t.name \o RenderAttrs(t.attrs) \o "/>"
      [] t.kind = "End" -> "</" \o t.name \o ">"
      [] OTHER -> t.text

\* The text of a document: its events' texts in document order.
RECURSIVE RenderDoc(_)
RenderDoc(toks) ==
    IF toks = <<>> THEN "" ELSE RenderToken(Head(toks)) \o RenderDoc(Tail(toks))

\* `for attr in e.attributes() { if attr.key == key { field = value } }`:
\* the last attribute of that name wins.
RECURSIVE LastAttr(_, _, _)
LastAttr(attrs, key, cur) ==
    IF attrs = <<>> THEN cur
    ELSE LastAttr(Tail(attrs), key, IF Head(attrs).key = key THEN Head(attrs).value ELSE cur)

\* `if let Ok(XmlEvent::Text(e)) = reader.read_event_into(..)` at position i.
IsTextAt(toks, i) == i <= Len(toks) /\ toks[i].kind = "Text"

\* event_log.rs parse_event, TimeCreated arm: every SystemTime attribute that
\* parses as RFC 3339 sets the time.
RECURSIVE DecoderTime(_, _)
DecoderTime(attrs, cur) ==
    IF attrs = <<>> THEN cur
    ELSE LET a == Head(attrs)
             t == IF a.key = "SystemTime" /\ ParseRfc3339(a.value) >= 0
                  THEN ParseRfc3339(a.value) ELSE cur
         IN  DecoderTime(Tail(attrs), t)

\* A decoder that stores every level text as it is.
LevelNameVerbatim(lvl) == lvl

\* The level vocabulary of parse_event.
LevelName(lvl) ==
    CASE lvl = "1" -> "Critical"
      [] lvl = "2" -> "Error"
      [] lvl = "3" -> "Warning"
      [] lvl = "4" -> "Information"
      [] lvl = "5" -> "Verbose"
      [] OTHER -> lvl

\* unwrap_or(0) of a parse result
UnwrapOr0(v) == IF v < 0 THEN 0 ELSE v

\* The scan loop of parse_event from reader position i.  An arm that reads the
\* element's text consumes the next reader event whatever it is.
RECURSIVE ParseEventFrom(_, _, _)
ParseEventFrom(toks, i, record) ==
    IF i > Len(toks) THEN record
    ELSE LET t == toks[i]
             txt == IF IsTextAt(toks, i + 1) THEN toks[i + 1].text ELSE ""
             has == IsTextAt(toks, i + 1)
         IN  IF t.kind = "Err" THEN record
             ELSE IF t.kind # "Start" THEN ParseEventFrom(toks, i + 1, record)
             ELSE CASE t.name = "Provider" ->
                         ParseEventFrom(toks, i + 1,
                             [record EXCEPT !.source = LastAttr(t.attrs, "Name", @)])
                    [] t.name = "EventID" ->
                         ParseEventFrom(toks, i + 2,
                             IF has THEN [record EXCEPT !.event_id = UnwrapOr0(ParseU16(txt))]
                             ELSE record)
                    [] t.name = "Level" ->
                         ParseEventFrom(toks, i + 2,
                             IF has THEN [record EXCEPT !.level = LevelName(txt)] ELSE record)
                    [] t.name = "TimeCreated" ->
                         ParseEventFrom(toks, i + 1,
                             [record EXCEPT !.time_created = DecoderTime(t.attrs, @)])
                    [] t.name = "Computer" ->
                         ParseEventFrom(toks, i + 2,
                             IF has THEN [record EXCEPT !.computer = txt] ELSE record)
                    [] t.name = "Security" ->
                         ParseEventFrom(toks, i + 1,
                             [record EXCEPT !.user = LastAttr(t.attrs, "UserID", @)])
                    [] t.name = "Data" ->
                         ParseEventFrom(toks, i + 2,
                             IF has
                             THEN [record EXCEPT !.description =
                                      IF @ # "" THEN @ \o "; " \o txt ELSE txt]
                             ELSE record)
                    [] t.name = "Channel" ->
                         ParseEventFrom(toks, i + 2,
                             IF has THEN [record EXCEPT !.log_name = txt] ELSE record)
                    [] OTHER -> ParseEventFrom(toks, i + 1, record)

\* event_log.rs parse_event: one record per document, never None.  `now` is
\* the Local::now() the record starts with.
ParseEvent(toks, now) ==
    ParseEventFrom(toks, 1, EventRecord("", now, 0, "", "", "", "", "", RenderDoc(toks)))

\* ------------------------------------------------------ apply_filters
\* Filters::default(): Option fields are <<>> (None) or <<v>> (Some(v)).
DefaultFilters ==
    [levels |-> <<>>, source |-> "", event_id |-> <<>>, user |-> "", computer |-> "",
     keyword |-> "", date_from |-> <<>>, date_to |-> <<>>]

\* Passes with the keyword looked for in the description only.
PassesDescriptionOnly(e, f) ==
    /\ (f.levels = <<>> \/ VecContains(f.levels, e.level))
    /\ (f.source = "" \/ Contains(e.source, f.source))
    /\ (f.event_id = <<>> \/ e.event_id = f.event_id[1])
    /\ (f.user = "" \/ Contains(e.user, f.user))
    /\ (f.computer = "" \/ Contains(e.computer, f.computer))
    /\ (f.keyword = "" \/ Contains(e.description, f.keyword))
    /\ (f.date_from = <<>> \/ DateNaive(e.time_created) >= f.date_from[1])
    /\ (f.date_to = <<>> \/ DateNaive(e.time_created) <= f.date_to[1])

\* The closure of evs.retain in apply_filters.
Passes(e, f) ==
    /\ (f.levels = <<>> \/ VecContains(f.levels, e.level))
    /\ (f.source = "" \/ Contains(e.source, f.source))
    /\ (f.event_id = <<>> \/ e.event_id = f.event_id[1])
    /\ (f.user = "" \/ Contains(e.user, f.user))
    /\ (f.computer = "" \/ Contains(e.computer, f.computer))
    /\ (f.keyword = "" \/ Contains(e.description, f.keyword) \/ Contains(e.raw_xml, f.keyword))
    /\ (f.date_from = <<>> \/ DateNaive(e.time_created) >= f.date_from[1])
    /\ (f.date_to = <<>> \/ DateNaive(e.time_created) <= f.date_to[1])

\* One insertion of the stable sort: e goes behind every record whose
\* timestamp is not smaller.
RECURSIVE InsertByTime(_, _)
InsertByTime(sorted, e) ==
    IF sorted = <<>> THEN <<e>>
    ELSE IF Timestamp(Head(sorted).time_created) >= Timestamp(e.time_created)
         THEN <<Head(sorted)>> \o InsertByTime(Tail(sorted), e)
         ELSE <<e>> \o sorted

\* evs.sort_by(|a, b| b.time_created.timestamp().cmp(&a.time_created.timestamp())):
\* a stable sort, descending in whole seconds.
RECURSIVE SortByTimeDesc(_, _)
SortByTimeDesc(evs, acc) ==
    IF evs = <<>> THEN acc ELSE SortByTimeDesc(Tail(evs), InsertByTime(acc, Head(evs)))

ApplyFilters(all, f) ==
    SortByTimeDesc(SelectSeq(all, LAMBDA e : Passes(e, f)), <<>>)

\* ---------------------------------------------------------- importers
\* An import file: whether it opens, and what its reader yields.  An .evtx
\* file yields records (ok or not, with their JSON text), an .xml file reader
\* events, a .csv file rows (ok or not, with their fields).
ImportFileOf(ext, opens, content) == [ext |-> ext, opens |-> opens, content |-> content]

EvtxRecord(ok, json) == [ok |-> ok, json |-> json]

CsvRow(ok, fields) == [ok |-> ok, fields |-> fields]

\* format!("{:?}", json) of a decoded archive record
DebugFmt(json) == "SerializedEvtxRecord { data: \"" \o json \o "\" }"

\* main.rs import_file, .evtx branch: one record per record that decodes.
RECURSIVE ImportEvtx(_, _)
ImportEvtx(recs, nows) ==
    IF recs = <<>> THEN <<>>
    ELSE IF Head(recs).ok
         THEN LET description == DebugFmt(Head(recs).json)
              IN  <<EventRecord("Imported EVTX", Head(nows), 0, "Info", "Import", "", "",
                                Take(description, DescMax), description)>>
                  \o ImportEvtx(Tail(recs), Tail(nows))
         ELSE ImportEvtx(Tail(recs), nows)

\* A row the csv reader yields as Ok: readable, and as long as the header row
\* (the reader is not flexible).
CsvRowOk(row, header) == row.ok /\ Len(row.fields) = Len(header.fields)

\* main.rs import_file, .csv branch, over the rows after the header.
RECURSIVE ImportCsvRows(_, _, _)
ImportCsvRows(rows, header, nows) ==
    IF rows = <<>> THEN <<>>
    ELSE IF CsvRowOk(Head(rows), header)
         THEN LET description == Join(Head(rows).fields, ", ")
              IN  <<EventRecord("Imported CSV", Head(nows), 0, "Info", "Import", "", "",
                                Take(description, DescMax), description)>>
                  \o ImportCsvRows(Tail(rows), header, Tail(nows))
         ELSE ImportCsvRows(Tail(rows), header, nows)

\* has_headers(true): the first row is the header and yields no record.
ImportCsv(rows, nows) ==
    IF rows = <<>> THEN <<>> ELSE ImportCsvRows(Tail(rows), Head(rows), nows)

\* `e.attributes().find(|a| a.key == key)`: the first attribute of that name,
\* <<>> when there is none.
RECURSIVE FirstAttr(_, _)
FirstAttr(attrs, key) ==
    IF attrs = <<>> THEN <<>>
    ELSE IF Head(attrs).key = key THEN <<Head(attrs).value>> ELSE FirstAttr(Tail(attrs), key)

\* import_file, TimeCreated: RFC 3339 first, then the naive local form.
ImporterTime(attrs, cur) ==
    LET a == FirstAttr(attrs, "SystemTime")
    IN  IF a = <<>> THEN cur
        ELSE IF ParseRfc3339(a[1]) >= 0 THEN ParseRfc3339(a[1])
        ELSE IF ParseNaive(a[1]) >= 0 THEN ParseNaive(a[1])
        ELSE cur

\* The fields a new event of the XML importer starts with.
XmlFields(now) == EventRecord("Imported XML", now, 0, "", "", "", "", "", "")

\* import_file, "Extract fields from known tags", for a Start event at
\* position i; `has`/`txt`: the next reader event is a Text, and its text.
XmlExtract(t, fields, has, txt) ==
    CASE t.name = "TimeCreated" ->
             [fields EXCEPT !.time_created = ImporterTime(t.attrs, @)]
      [] t.name = "EventID" ->
             IF has THEN [fields EXCEPT !.event_id = UnwrapOr0(ParseU16(txt))] ELSE fields
      [] t.name = "Level" -> IF has THEN [fields EXCEPT !.level = txt] ELSE fields
      [] t.name = "Provider" -> [fields EXCEPT !.source = LastAttr(t.attrs, "Name", @)]
      [] t.name = "Computer" -> IF has THEN [fields EXCEPT !.computer = txt] ELSE fields
      [] t.name = "UserID" -> IF has THEN [fields EXCEPT !.user = txt] ELSE fields
      [] t.name = "Data" ->
             IF has
             THEN [fields EXCEPT !.description = IF @ # "" THEN @ \o "; " \o txt ELSE txt]
             ELSE fields
      [] OTHER -> fields

\* The tags whose arm reads (and so consumes) the next reader event.
ReadsText(name) == name \in {"EventID", "Level", "Computer", "UserID", "Data"}

\* The loop of import_file's .xml branch from reader position i: st holds
\* in_event, event_xml, fields, the records pushed so far and the Local::now()
\* values not yet used.
RECURSIVE ImportXmlFrom(_, _, _)
ImportXmlFrom(toks, i, st) ==
    IF i > Len(toks) THEN st.out
    ELSE LET t == toks[i]
         IN  CASE t.kind = "Start" /\ t.name = "Event" ->
                      ImportXmlFrom(toks, i + 1,
                          [st EXCEPT !.in_event = TRUE, !.event_xml = "<Event>",
                                     !.fields = XmlFields(Head(st.nows)),
                                     !.nows = Tail(st.nows)])
               [] t.kind = "End" /\ t.name = "Event" ->
                      LET xml == st.event_xml \o "</Event>"
                      IN  ImportXmlFrom(toks, i + 1,
                              [st EXCEPT !.in_event = FALSE, !.event_xml = xml,
                                         !.fields = [st.fields EXCEPT !.raw_xml = xml],
                                         !.out = Append(@, [st.fields EXCEPT !.raw_xml = xml])])
               [] t.kind \in {"Text", "CData"} /\ st.in_event ->
                      ImportXmlFrom(toks, i + 1, [st EXCEPT !.event_xml = @ \o t.text])
               [] t.kind = "Start" /\ t.name # "Event" /\ st.in_event ->
                      LET has == IsTextAt(toks, i + 1)
                          txt == IF has THEN toks[i + 1].text ELSE ""
                      IN  ImportXmlFrom(toks, IF ReadsText(t.name) THEN i + 2 ELSE i + 1,
                              [st EXCEPT
                                 !.event_xml = @ \o "<" \o t.name \o RenderAttrs(t.attrs) \o ">",
                                 !.fields = XmlExtract(t, @, has, txt)])
               [] t.kind = "End" /\ t.name # "Event" /\ st.in_event ->
                      ImportXmlFrom(toks, i + 1,
                          [st EXCEPT !.event_xml = @ \o "</" \o t.name \o ">"])
               [] t.kind = "Err" -> st.out
               [] OTHER -> ImportXmlFrom(toks, i + 1, st)

\* Local::now() is read once before the loop and once per <Event> start.
EventStarts(toks) ==
    Cardinality({i \in 1..Len(toks) : toks[i].kind = "Start" /\ toks[i].name = "Event"})

ImportXml(toks, nows) ==
    ImportXmlFrom(toks, 1,
        [in_event |-> FALSE, event_xml |-> "", fields |-> XmlFields(Head(nows)),
         out |-> <<>>, nows |-> Tail(nows)])

\* How many times import_file reads the clock for a file that opens.
ImportNowCount(f) ==
    CASE f.ext = "evtx" -> Len(SelectSeq(f.content, LAMBDA r : r.ok))
      [] f.ext = "csv" ->
             IF f.content = <<>> THEN 0
             ELSE Len(SelectSeq(Tail(f.content), LAMBDA r : CsvRowOk(r, Head(f.content))))
      [] OTHER -> 1 + EventStarts(f.content)

\* The records import_file puts in filtered_events for a file that opens.
ImportRecords(f, nows) ==
    CASE f.ext = "evtx" -> ImportEvtx(f.content, nows)
      [] f.ext = "csv" -> ImportCsv(f.content, nows)
      [] OTHER -> ImportXml(f.content, nows)

\* ------------------------------------------------------------- state
VARIABLES
    platform,         \* "windows" or "unix": the cfg(target_os) the build was made for
    syslog,           \* unix: the lines of the system log file, oldest first
    channels,         \* windows: per channel, its event documents, oldest first
    clock,            \* the latest value Local::now() returned
    pc,               \* polling thread: "query", "send" or "sleep"
    pending,          \* polling thread: the records of this tick not yet sent
    polls,            \* polling thread: the ticks started so far
    queue,            \* the mpsc channel
    all_events,       \* EventViewerApp.all_events: the Working Set
    filtered_events,  \* EventViewerApp.filtered_events: the Filtered View
    filters,          \* EventViewerApp.filters
    selected,         \* EventViewerApp.selected: <<>> (None) or <<i>> (Some(i)), i from 0
    paused,           \* EventViewerApp.paused
    current_page,     \* EventViewerApp.current_page
    selected_logs,    \* EventViewerApp.selected_logs
    crashed,          \* the process has panicked
    qTag,             \* history: per queued record, its tick and whether paused at its send
    allTick,          \* history: per Working Set record, the tick it came from (0: a refresh)
    batches,          \* history: what each poll tick's query returned
    cut,              \* history: ticks a refresh cut in two (part drained, part not yet)
    wiped,            \* history: ticks whose records, all drained, a refresh removed
    picked,           \* <<f>>: the file the import dialog is going to return; else <<>>
    last              \* history: the last step: "refresh", "import", "import failed", "other"

vars == <<platform, syslog, channels, clock, pc, pending, polls, queue, all_events,
          filtered_events, filters, selected, paused, current_page, selected_logs,
          crashed, qTag, allTick, batches, cut, wiped, picked, last>>

envVars == <<platform, syslog, channels>>

threadVars == <<pc, pending, polls, queue, qTag, batches>>

appVars == <<all_events, filtered_events, selected, paused, current_page, selected_logs,
             crashed, allTick, cut, wiped, picked>>

\* ------------------------------------------------------- log sources
\* event_log.rs list_event_logs
ListEventLogs(os) ==
    IF os = "windows" THEN <<"Application", "Security", "System", "Setup">>
    ELSE <<"system">>

ChannelNames == {"Application", "Security", "System", "Setup"}

available_logs == ListEventLogs(platform)

\* `wevtutil qe log /f:xml /c:max /rd:true`: the newest max documents of the
\* channel, newest first; a name that is no channel makes it exit non-zero,
\* which query_events turns into no records.
RECURSIVE Reverse(_)
Reverse(s) == IF s = <<>> THEN <<>> ELSE Append(Reverse(Tail(s)), Head(s))

Wevtutil(log, max) ==
    IF log \in ChannelNames THEN Take(Reverse(channels[log]), max) ELSE <<>>

\* How many records query_events(log, max) returns; each reads the clock once.
QueryCount(log, max) ==
    IF platform = "windows" THEN Len(Wevtutil(log, max)) ELSE Min(max, Len(syslog))

\* event_log.rs query_events: newest first, at most max records.
QueryEvents(log, max, nows) ==
    IF platform = "windows"
    THEN LET docs == Wevtutil(log, max)
         IN  [i \in 1..Len(docs) |-> ParseEvent(docs[i], nows[i])]
    ELSE LET lines == Take(Reverse(syslog), max)
         IN  [i \in 1..Len(lines) |->
                 EventRecord(log, nows[i], 0, "", "", "", "", lines[i], lines[i])]

\* selected_logs.iter().flat_map(|log| query_events(log, page_size)).collect()
RECURSIVE QueryAll(_, _, _)
QueryAll(logs, max, nows) ==
    IF logs = <<>> THEN <<>>
    ELSE LET n == QueryCount(Head(logs), max)
         IN  QueryEvents(Head(logs), max, SubSeq(nows, 1, n))
             \o QueryAll(Tail(logs), max, SubSeq(nows, n + 1, Len(nows)))

RECURSIVE QueryAllCount(_, _)
QueryAllCount(logs, max) ==
    IF logs = <<>> THEN 0 ELSE QueryCount(Head(logs), max) + QueryAllCount(Tail(logs), max)

\* The values n successive reads of Local::now() can return from here on.
NowSeqs(n) ==
    {s \in [1..n -> clock..MaxClock] : \A i \in 1..(n - 1) : s[i] <= s[i + 1]}

ClockAfter(nows) == IF nows = <<>> THEN clock ELSE Last(nows)

\* ------------------------------------------------------ environment
\* The text of the n-th line written to the system log.
LineText(n) == "line" \o ToString(n)

\* An event document as the native facility writes it (Provider, TimeCreated
\* and Security self-closing), or with those elements as start/end pairs.
WinDoc(ch, form, t) ==
    LET El(name, attrs) ==
            IF form = "native" THEN <<XmlEmpty(name, attrs)>>
            ELSE <<XmlStart(name, attrs), XmlEnd(name)>>
    IN  <<XmlStart("Event", <<>>), XmlStart("System", <<>>)>>
        \o El("Provider", <<Attr("Name", "svc")>>)
        \o <<XmlStart("EventID", <<>>), XmlText("7"), XmlEnd("EventID"),
             XmlStart("Level", <<>>), XmlText("2"), XmlEnd("Level")>>
        \o El("TimeCreated", <<Attr("SystemTime", ToString(t) \o "Z")>>)
        \o <<XmlStart("Channel", <<>>), XmlText(ch), XmlEnd("Channel"),
             XmlEnd("System"), XmlEnd("Event")>>

\* The channels that receive events, and the logs whose checkbox gets clicked.
WrittenChannels == {"Application", "System"}

ClickedLogs == {"Application", "system"}

StoredEntries ==
    IF platform = "windows"
    THEN Len(channels["Application"]) + Len(channels["Security"])
         + Len(channels["System"]) + Len(channels["Setup"])
    ELSE Len(syslog)

\* The system writes a new entry to a log.
LogAppend ==
    /\ ~crashed
    /\ StoredEntries < MaxLogLines
    /\ \/ /\ platform = "unix"
          /\ syslog' = Append(syslog, LineText(Len(syslog) + 1))
          /\ UNCHANGED <<channels, clock>>
       \/ /\ platform = "windows"
          /\ \E ch \in WrittenChannels, form \in {"native", "expanded"}, t \in {0, MaxDocTime} :
                channels' = [channels EXCEPT ![ch] = Append(@, WinDoc(ch, form, t))]
          /\ UNCHANGED <<syslog, clock>>
    /\ UNCHANGED <<platform, filters>>
    /\ UNCHANGED threadVars
    /\ UNCHANGED appVars
    /\ last' = "other"

\* --------------------------------------------------- polling thread
\* main.rs:67  query_events(&available_logs_for_thread.join(","), 50)
PollQuery ==
    /\ ~crashed
    /\ pc = "query"
    /\ polls < MaxPolls
    /\ LET log == Join(available_logs, ",")
       IN  \E nows \in NowSeqs(QueryCount(log, PollCount)) :
              LET events == QueryEvents(log, PollCount, nows)
              IN  /\ pending' = Reverse(events)
                  /\ batches' = Append(batches, events)
                  /\ clock' = ClockAfter(nows)
    /\ pc' = "send"
    /\ polls' = polls + 1
    /\ UNCHANGED <<queue, qTag, filters>>
    /\ UNCHANGED envVars
    /\ UNCHANGED appVars
    /\ last' = "other"

\* main.rs:68-70  one tx.send(ev) of `for ev in events.into_iter().rev()`
PollSend ==
    /\ ~crashed
    /\ pc = "send"
    /\ pending # <<>>
    /\ queue' = Append(queue, Head(pending))
    /\ qTag' = Append(qTag, [tick |-> polls, paused |-> paused])
    /\ pending' = Tail(pending)
    /\ UNCHANGED <<pc, polls, batches, clock, filters>>
    /\ UNCHANGED envVars
    /\ UNCHANGED appVars
    /\ last' = "other"

\* main.rs:71  the loop is through; sleep, then the next tick
PollSleep ==
    /\ ~crashed
    /\ pc = "send"
    /\ pending = <<>>
    /\ pc' = "query"
    /\ UNCHANGED <<pending, polls, queue, qTag, batches, clock, filters>>
    /\ UNCHANGED envVars
    /\ UNCHANGED appVars
    /\ last' = "other"

\* ------------------------------------------------------- update_live
\* `while let Ok(ev) = recv.try_recv() { all_events.insert(0, ev) }`.  The loop
\* ends at the first try_recv that finds the channel empty, so it has taken
\* everything sent before that moment: one atomic step at that moment.
\* update_live with each record pushed behind the Working Set instead.
InsertAllBehind(q, all) == all \o q

RECURSIVE InsertAll(_, _)
InsertAll(q, all) ==
    IF q = <<>> THEN all ELSE InsertAll(Tail(q), <<Head(q)>> \o all)

Drains == ~paused

LiveAll == IF Drains THEN InsertAll(queue, all_events) ELSE all_events

LiveFiltered == IF Drains THEN ApplyFilters(LiveAll, filters) ELSE filtered_events

LiveQueue == IF Drains THEN <<>> ELSE queue

LiveTag == IF Drains THEN <<>> ELSE qTag

LiveTicks ==
    IF Drains THEN InsertAll([i \in 1..Len(qTag) |-> qTag[i].tick], allTick) ELSE allTick

\* update_live's part of a frame.
UpdateLive ==
    /\ queue' = LiveQueue
    /\ qTag' = LiveTag
    /\ UNCHANGED <<pc, pending, polls, batches, platform, syslog, channels, filters>>

\* ------------------------------------------------ frames of update()
\* Every frame runs update_live and then the handler of what was clicked.

\* A frame with no click.
FrameIdle ==
    /\ ~crashed
    /\ UpdateLive
    /\ all_events' = LiveAll
    /\ allTick' = LiveTicks
    /\ filtered_events' = LiveFiltered
    /\ UNCHANGED <<selected, paused, current_page, selected_logs, crashed, cut, wiped, picked, clock>>
    /\ last' = "other"

\* main.rs:414-422  a log's checkbox is toggled
ClickLog(log) ==
    /\ ~crashed
    /\ UpdateLive
    /\ all_events' = LiveAll
    /\ allTick' = LiveTicks
    /\ filtered_events' = LiveFiltered
    /\ selected_logs' =
           IF VecContains(selected_logs, log)
           THEN SelectSeq(selected_logs, LAMBDA l : l # log)
           ELSE Append(selected_logs, log)
    /\ UNCHANGED <<selected, paused, current_page, crashed, cut, wiped, picked, clock>>
    /\ last' = "other"

\* The ticks with records in the Working Set after this frame's update_live,
\* and those of them with records still to come.
TicksMerged == {k \in 1..polls : \E i \in 1..Len(LiveTicks) : LiveTicks[i] = k}

TicksInFlight ==
    {k \in TicksMerged :
        /\ \/ \E i \in 1..Len(LiveTag) : LiveTag[i].tick = k
           \/ (k = polls /\ pending # <<>>)}

\* refresh_page putting the query results ahead of the old Working Set
\* instead of replacing it.
RefreshPageKeepsOld(nows) ==
    /\ current_page' = 0
    /\ all_events' = QueryAll(selected_logs, PageSize, nows) \o LiveAll
    /\ filtered_events' = ApplyFilters(all_events', filters)

\* main.rs:95-99 refresh_page
RefreshPage(nows) ==
    /\ current_page' = 0
    /\ all_events' = QueryAll(selected_logs, PageSize, nows)
    /\ filtered_events' = ApplyFilters(all_events', filters)

\* main.rs:423  Refresh
ClickRefresh ==
    /\ ~crashed
    /\ UpdateLive
    /\ \E nows \in NowSeqs(QueryAllCount(selected_logs, PageSize)) :
          /\ RefreshPage(nows)
          /\ allTick' = [i \in 1..Len(nows) |-> 0]
          /\ clock' = ClockAfter(nows)
    /\ cut' = cut \cup TicksInFlight
    /\ wiped' = wiped \cup (TicksMerged \ TicksInFlight)
    /\ last' = "refresh"
    /\ UNCHANGED <<selected, paused, selected_logs, crashed, picked>>

\* main.rs:424-426  Pause / Resume
ClickPause ==
    /\ ~crashed
    /\ UpdateLive
    /\ all_events' = LiveAll
    /\ allTick' = LiveTicks
    /\ filtered_events' = LiveFiltered
    /\ paused' = ~paused
    /\ UNCHANGED <<selected, current_page, selected_logs, crashed, cut, wiped, picked, clock>>
    /\ last' = "other"

\* main.rs:128-310 import_file, after `self.paused = true`: what it does to
\* filtered_events, and whether it returns.  File::open(path).unwrap() of the
\* .xml branch panics on a file that does not open.
ImportPanics(f) == f.ext = "xml" /\ ~f.opens

ImportFile(f, nows, view) == IF f.opens THEN ImportRecords(f, nows) ELSE view

\* main.rs:427-435  Import File, with a file picked
ClickImport(f) ==
    /\ ~crashed
    /\ UpdateLive
    /\ all_events' = LiveAll
    /\ allTick' = LiveTicks
    /\ paused' = TRUE
    /\ crashed' = ImportPanics(f)
    /\ \E nows \in NowSeqs(IF f.opens THEN ImportNowCount(f) ELSE 0) :
          /\ filtered_events' = ImportFile(f, nows, LiveFiltered)
          /\ clock' = ClockAfter(nows)
    /\ selected' = IF filtered_events' # <<>> /\ ~crashed' THEN <<0>> ELSE selected
    /\ UNCHANGED <<current_page, selected_logs, cut, wiped, picked>>
    /\ last' = IF f.opens THEN "import" ELSE "import failed"

\* main.rs:481-489  a row of the table is clicked
ClickRow(i) ==
    /\ ~crashed
    /\ UpdateLive
    /\ all_events' = LiveAll
    /\ allTick' = LiveTicks
    /\ filtered_events' = LiveFiltered
    /\ i < Len(LiveFiltered)
    /\ selected' = <<i>>
    /\ UNCHANGED <<paused, current_page, selected_logs, crashed, cut, wiped, picked, clock>>
    /\ last' = "other"

\* ------------------------------------------------------ import files
RECURSIVE Repeat(_, _)
Repeat(c, n) ==
    IF n = 0 THEN ""
    ELSE LET half == Repeat(c, n \div 2)
         IN  half \o half \o (IF n % 2 = 1 THEN c ELSE "")

\* A delimited file: a header, a row of another length, a well-formed row, a
\* row whose fields join to more than DescMax characters.
SampleCsv ==
    <<CsvRow(TRUE, <<"h1", "h2">>), CsvRow(TRUE, <<"c">>), CsvRow(TRUE, <<"a", "b">>),
      CsvRow(TRUE, <<Repeat("x", DescMax), "y">>)>>

\* An XML export of two events, the older first.
XmlEventDoc(id, t) ==
    <<XmlStart("Event", <<Attr("xmlns", "e")>>), XmlStart("System", <<>>),
      XmlEmpty("Provider", <<Attr("Name", "svc")>>),
      XmlStart("EventID", <<>>), XmlText(id), XmlEnd("EventID"),
      XmlStart("TimeCreated", <<Attr("SystemTime", t)>>), XmlEnd("TimeCreated"),
      XmlEnd("System"), XmlEnd("Event")>>

SampleXml ==
    <<XmlStart("Events", <<>>)>> \o XmlEventDoc("1", "0Z") \o XmlEventDoc("2", "2Z")
    \o <<XmlEnd("Events")>>

\* A binary archive: a record that does not decode, one that does.
SampleEvtx == <<EvtxRecord(FALSE, ""), EvtxRecord(TRUE, "r1")>>

SampleFiles ==
    {ImportFileOf("evtx", FALSE, <<>>), ImportFileOf("xml", FALSE, <<>>),
     ImportFileOf("csv", FALSE, <<>>), ImportFileOf("evtx", TRUE, SampleEvtx),
     ImportFileOf("xml", TRUE, SampleXml), ImportFileOf("csv", TRUE, SampleCsv)}

\* ------------------------------------------------------ specification
\* EventViewerApp::default(): the thread is spawned and refresh_page has run.
InitialLogs ==
    {[os |-> "unix", syslog |-> <<>>], [os |-> "unix", syslog |-> <<LineText(1)>>],
     [os |-> "windows", syslog |-> <<>>]}

Init ==
    /\ \E l \in InitialLogs : platform = l.os /\ syslog = l.syslog
    /\ channels = [c \in ChannelNames |-> <<>>]
    /\ pc = "query"
    /\ pending = <<>>
    /\ polls = 0
    /\ queue = <<>>
    /\ qTag = <<>>
    /\ batches = <<>>
    /\ filters = DefaultFilters
    /\ selected = <<>>
    /\ paused = FALSE
    /\ current_page = 0
    /\ selected_logs = ListEventLogs(platform)
    /\ crashed = FALSE
    /\ cut = {}
    /\ wiped = {}
    /\ picked = <<>>
    /\ last = "other"
    /\ \E t \in 0..MaxClock :
          LET nows == [i \in 1..Len(syslog) |-> t]
          IN  /\ clock = t
              /\ all_events = [i \in 1..Len(syslog) |->
                                  EventRecord("system", t, 0, "", "", "", "",
                                              Reverse(syslog)[i], Reverse(syslog)[i])]
    /\ allTick = [i \in 1..Len(all_events) |-> 0]
    /\ filtered_events = ApplyFilters(all_events, filters)

Next ==
    \/ LogAppend
    \/ PollQuery
    \/ PollSend
    \/ PollSleep
    \/ FrameIdle
    \/ \E log \in ClickedLogs : VecContains(available_logs, log) /\ ClickLog(log)
    \/ ClickRefresh
    \/ ClickPause
    \/ \E f \in SampleFiles : ClickImport(f)
    \/ \E i \in 0..MaxRow : ClickRow(i)

Spec == Init /\ [][Next]_vars

\* ---------------------------------------- apply_filters on its own
\* Records that differ in every field a predicate reads.
FilterRecords ==
    {EventRecord("Application", t, IF t = 0 THEN 7 ELSE 0, lv,
                 IF lv = "Error" THEN "svchost" ELSE "", IF t = 0 THEN "" ELSE "bob",
                 IF lv = "Error" THEN "pc1" ELSE "pc2", kw[1], kw[2]) :
        lv \in {"Error", "Info"}, t \in {0, DayLen, 2 * DayLen + 1},
        kw \in {<<"boot ok", "">>, <<"", "<a>boot</a>">>, <<"x", "y">>}}

FilterWorkingSets ==
    {<<>>} \cup {<<a>> : a \in FilterRecords} \cup {<<a, b>> : a \in FilterRecords, b \in FilterRecords}

FilterCriteria ==
    [levels : {<<>>, <<"Error">>, <<"Info", "Error">>}, source : {"", "vch"},
     event_id : {<<>>, <<7>>}, user : {"", "bob"}, computer : {"", "pc1"},
     keyword : {"", "boot"}, date_from : {<<>>, <<1>>}, date_to : {<<>>, <<1>>}]

\* A Working Set is given; nothing is filtered yet.
FilterInit ==
    /\ platform = "unix"
    /\ syslog = <<>>
    /\ channels = [c \in ChannelNames |-> <<>>]
    /\ clock = 0
    /\ pc = "query"
    /\ pending = <<>>
    /\ polls = 0
    /\ queue = <<>>
    /\ qTag = <<>>
    /\ batches = <<>>
    /\ filters = DefaultFilters
    /\ selected = <<>>
    /\ paused = TRUE
    /\ current_page = 0
    /\ selected_logs = <<>>
    /\ crashed = FALSE
    /\ cut = {}
    /\ wiped = {}
    /\ picked = <<>>
    /\ last = "other"
    /\ all_events \in FilterWorkingSets
    /\ allTick = [i \in 1..Len(all_events) |-> 0]
    /\ filtered_events = <<>>

\* apply_filters under the criteria f.
FilterApply(f) ==
    /\ last = "other"
    /\ filters' = f
    /\ filtered_events' = ApplyFilters(all_events, f)
    /\ last' = "filtered"
    /\ UNCHANGED <<platform, syslog, channels, clock, pc, pending, polls, queue, qTag,
                   batches, all_events, selected, paused, current_page, selected_logs,
                   crashed, cut, wiped, picked, allTick>>

FilterNext == \E f \in FilterCriteria : FilterApply(f)

FilterSpec == FilterInit /\ [][FilterNext]_vars

\* --------------------------------------------- import_file on its own
\* The child elements an exported event is built from.
XmlChildren ==
    {<<XmlEmpty("Provider", <<Attr("Name", "svc")>>)>>,
     <<XmlStart("Provider", <<Attr("Name", "svc")>>), XmlEnd("Provider")>>,
     <<XmlStart("EventID", <<>>), XmlText("7"), XmlEnd("EventID")>>,
     <<XmlStart("Data", <<>>), XmlText("boot"), XmlEnd("Data")>>,
     <<XmlStart("Data", <<>>), XmlEnd("Data")>>,
     <<XmlStart("Task", <<Attr("Id", "1")>>), XmlText("t"), XmlEnd("Task")>>,
     <<XmlStart("Level", <<>>), XmlText("2"), XmlEnd("Level")>>,
     <<XmlStart("System", <<>>), XmlEmpty("Security", <<Attr("UserID", "S-1")>>),
       XmlEnd("System")>>}

\* Complete event elements of up to MaxChildren children.
XmlEventBodies ==
    UNION {{<<>>}, XmlChildren, {a \o b : a \in XmlChildren, b \in XmlChildren}}

XmlEvents == {<<XmlStart("Event", <<>>)>> \o b \o <<XmlEnd("Event")>> : b \in XmlEventBodies}

\* Well-formed exports of up to two events under one root.
XmlExports ==
    {<<XmlStart("Events", <<>>), XmlEnd("Events")>>}
    \cup {<<XmlStart("Events", <<>>)>> \o e \o <<XmlEnd("Events")>> : e \in XmlEvents}
    \cup {<<XmlStart("Events", <<>>)>> \o e1 \o e2 \o <<XmlEnd("Events")>> :
             e1 \in XmlEvents, e2 \in XmlEvents}

\* Data rows: well-formed short and long ones, one of another length than the
\* header, one the reader cannot decode.
CsvDataRows ==
    {CsvRow(TRUE, <<"a", "b">>), CsvRow(TRUE, <<"", "c d">>),
     CsvRow(TRUE, <<Repeat("x", DescMax - 2), "y">>), CsvRow(TRUE, <<Repeat("x", DescMax), "y">>),
     CsvRow(TRUE, <<"a", "b", "c">>), CsvRow(FALSE, <<"a", "b">>)}

CsvFiles ==
    LET header == <<CsvRow(TRUE, <<"h1", "h2">>)>>
    IN  {header} \cup {header \o <<r>> : r \in CsvDataRows}
        \cup {header \o <<r1, r2>> : r1 \in CsvDataRows, r2 \in CsvDataRows}
        \cup {header \o <<r1, r2, r3>> :
                 r1 \in CsvDataRows, r2 \in CsvDataRows, r3 \in CsvDataRows}

ImportFiles ==
    SampleFiles
    \cup {ImportFileOf("xml", TRUE, x) : x \in XmlExports}
    \cup {ImportFileOf("csv", TRUE, c) : c \in CsvFiles}

\* The application has started, on an empty log or on a log of one line that
\* it shows; a file is about to be picked.
ImportInit ==
    /\ platform = "unix"
    /\ syslog \in {<<>>, <<LineText(1)>>}
    /\ channels = [c \in ChannelNames |-> <<>>]
    /\ clock = 0
    /\ pc = "query"
    /\ pending = <<>>
    /\ polls = 0
    /\ queue = <<>>
    /\ qTag = <<>>
    /\ batches = <<>>
    /\ filters = DefaultFilters
    /\ selected = <<>>
    /\ paused = FALSE
    /\ current_page = 0
    /\ selected_logs = ListEventLogs(platform)
    /\ crashed = FALSE
    /\ cut = {}
    /\ wiped = {}
    /\ last = "other"
    /\ all_events = [i \in 1..Len(syslog) |->
                        EventRecord("system", 0, 0, "", "", "", "", syslog[i], syslog[i])]
    /\ allTick = [i \in 1..Len(all_events) |-> 0]
    /\ filtered_events = ApplyFilters(all_events, filters)
    /\ picked \in {<<f>> : f \in ImportFiles}

\* The Import File button, the dialog returning the picked file.
ImportPicked ==
    /\ last = "other"
    /\ ClickImport(picked[1])

\* After the import the frames go on, with or without a Pause/Resume click.
ImportNext ==
    \/ ImportPicked
    \/ FrameIdle
    \/ ClickPause

ImportSpec == ImportInit /\ [][ImportNext]_vars

\* ------------------------------------------------ parse_event on its own
\* An element with text, as the reader reports it.
XmlElement(name, attrs, text) ==
    <<XmlStart(name, attrs)>> \o (IF text = "" THEN <<>> ELSE <<XmlText(text)>>)
    \o <<XmlEnd(name)>>

\* Texts an EventID element can carry: in range, at and past the u16 limit,
\* signed, not a number, none.
EventIdTexts == {"7", "65535", "65536", "+7", "-1", "x7", ""}

LevelTexts == {"1", "2", "3", "4", "5", "0", "6", "Error", ""}

\* The child elements of the System part of an event document, in the
\* start/end form and in the self-closing form.
DecodeChildren ==
    {XmlElement("EventID", <<>>, t) : t \in EventIdTexts}
    \cup {XmlElement("Level", <<>>, t) : t \in LevelTexts}
    \cup {XmlElement("Provider", <<Attr("Name", "svc")>>, ""),
          <<XmlEmpty("Provider", <<Attr("Name", "svc")>>)>>,
          XmlElement("Security", <<Attr("UserID", "S-1")>>, ""),
          <<XmlEmpty("Security", <<Attr("UserID", "S-1")>>)>>,
          <<XmlEmpty("EventID", <<>>)>>,
          XmlElement("Computer", <<>>, "pc"),
          XmlElement("Data", <<>>, "boot")}

\* Event documents of up to two such children.
DecodeDocs ==
    LET bodies == UNION {{<<>>}, DecodeChildren,
                         {a \o b : a \in DecodeChildren, b \in DecodeChildren}}
    IN  {<<XmlStart("Event", <<>>), XmlStart("System", <<>>)>> \o b
         \o <<XmlEnd("System"), XmlEnd("Event")>> : b \in bodies}

\* The application has started on empty channels; since then one document
\* has been logged to the Application channel.
DecodeInit ==
    /\ platform = "windows"
    /\ syslog = <<>>
    /\ \E doc \in DecodeDocs :
          channels = [c \in ChannelNames |-> IF c = "Application" THEN <<doc>> ELSE <<>>]
    /\ clock = 0
    /\ pc = "query"
    /\ pending = <<>>
    /\ polls = 0
    /\ queue = <<>>
    /\ qTag = <<>>
    /\ batches = <<>>
    /\ filters = DefaultFilters
    /\ selected = <<>>
    /\ paused = FALSE
    /\ current_page = 0
    /\ selected_logs = ListEventLogs(platform)
    /\ crashed = FALSE
    /\ cut = {}
    /\ wiped = {}
    /\ last = "other"
    /\ all_events = <<>>
    /\ allTick = <<>>
    /\ filtered_events = <<>>
    /\ picked = <<>>

\* The Refresh button: query_events decodes the channel's document.
DecodeNext == ClickRefresh

DecodeSpec == DecodeInit /\ [][DecodeNext]_vars

\* ============================================================ claims

\* -------------------------------------------------------------- C1
\* How many of the queued records were sent while the pipeline was Paused.
QueuedWhilePaused == Cardinality({i \in 1..Len(qTag) : qTag[i].paused})

\* C1: records the poller produced while Paused are not merged into the
\* Working Set before Resume, and after Resume they are not applied as one
\* backlog: no step drains the queue while Paused, and no step drains a queue
\* that holds two or more records sent during a pause.
C1_PausedRecordsNotMergedInBulk ==
    [][/\ paused => Len(queue') >= Len(queue)
       /\ Len(queue') < Len(queue) => QueuedWhilePaused <= 1]_vars

\* -------------------------------------------------------------- C2
\* The most records one poll tick delivers.
QueueBound == Min(PollCount, MaxLogLines)

\* C2: while Paused, however many poll ticks pass, the queue holds no more
\* than a fixed number of records (here: what one tick delivers).
C2_QueueBoundedWhilePaused == paused => Len(queue) <= QueueBound

\* -------------------------------------------------------------- C3
\* C3: the Filtered View is ordered by time_created, non-increasing.
C3_FilteredViewSorted ==
    \A i \in 1..Len(filtered_events), j \in 1..Len(filtered_events) :
        i < j => filtered_events[i].time_created >= filtered_events[j].time_created

\* -------------------------------------------------------------- C4
\* Tick k has sent all its records and the consumer has drained them all.
TickDrained(k) ==
    /\ k <= polls
    /\ (k = polls => pending = <<>>)
    /\ \A i \in 1..Len(qTag) : qTag[i].tick # k

\* The records of tick k sit in the Working Set as one block, in the order the
\* query returned them, behind the records of later ticks and ahead of
\* everything older.
Landed(k) ==
    LET pos == {i \in 1..Len(allTick) : allTick[i] = k}
        n == Len(batches[k])
    IN  /\ Cardinality(pos) = n
        /\ n > 0 =>
             LET p == CHOOSE i \in pos : \A j \in pos : i <= j
             IN  /\ pos = p..(p + n - 1)
                 /\ \A j \in 1..n : all_events[p + j - 1] = batches[k][j]
                 /\ \A i \in 1..(p - 1) : allTick[i] > k
                 /\ \A i \in (p + n)..Len(allTick) : allTick[i] < k

\* C4 (as stated): once a tick's records are all drained they are all in the
\* Working Set, in query order, ahead of what was there before, however the
\* drains interleave with the sends.  (A tick whose records a refresh removed
\* after they had all been drained is not counted against the claim.)
C4_EveryPolledRecordMerged ==
    \A k \in 1..polls : (TickDrained(k) /\ k \notin wiped) => Landed(k)

\* C4 (amended): the same, for the ticks no refresh has replaced the Working
\* Set under since their first record was merged.
C4_BatchOrderKept ==
    \A k \in 1..polls : (TickDrained(k) /\ k \notin (wiped \cup cut)) => Landed(k)

\* Two ticks of two records each have landed on top of an older record.
C4_Witness ==
    /\ polls >= 2
    /\ ~paused
    /\ \A k \in 1..2 : TickDrained(k) /\ k \notin (wiped \cup cut) /\ Len(batches[k]) = 2
    /\ Len(all_events) >= 5
    /\ all_events[1] # all_events[2]

\* -------------------------------------------------------------- C5
\* C5: an import of a file that cannot be opened returns and leaves the
\* Working Set, the Filtered View, the selected index and the Paused flag as
\* they were when import was called (after the frame's update_live).
C5_FailedImportLeavesState ==
    [][last' = "import failed" =>
          /\ all_events' = LiveAll
          /\ filtered_events' = LiveFiltered
          /\ selected' = selected
          /\ paused' = paused
          /\ ~crashed']_vars

\* -------------------------------------------------------------- C6
\* C6: a poll tick queries the sources selected at that moment: each record
\* it returns comes from a selected source, and it returns records when a
\* selected source holds some.
C6_PollQueriesSelection ==
    [][polls' = polls + 1 =>
          /\ \A i \in 1..Len(pending') : VecContains(selected_logs, pending'[i].log_name)
          /\ QueryAllCount(selected_logs, PollCount) > 0 => pending' # <<>>]_vars

\* -------------------------------------------------------------- C7
\* The records of a sequence with their time_created set aside.
Untimed(evs) == [i \in 1..Len(evs) |-> [evs[i] EXCEPT !.time_created = 0]]

\* C7: right after a refresh the Working Set is the concatenation of the
\* selected sources' query results at the refresh page size, nothing that was
\* there before is left, the pagination offset is 0 and the Filtered View is
\* the filter of the new Working Set.
C7_RefreshReplacesWorkingSet ==
    last = "refresh" =>
        /\ Len(all_events) = QueryAllCount(selected_logs, PageSize)
        /\ Untimed(all_events)
             = Untimed(QueryAll(selected_logs, PageSize, [i \in 1..Len(all_events) |-> 0]))
        /\ allTick = [i \in 1..Len(all_events) |-> 0]
        /\ current_page = 0
        /\ Len(filtered_events) = Len(all_events)
        /\ \A i \in 1..Len(all_events) :
              \E j \in 1..Len(filtered_events) : filtered_events[j] = all_events[i]

\* A refresh over several selected sources, two of them with records, has
\* replaced a Working Set that held live records.
C7_Witness ==
    /\ last = "refresh"
    /\ Len(selected_logs) >= 3
    /\ Len(all_events) = 2
    /\ all_events[1].log_name # all_events[2].log_name

\* -------------------------------------------------------------- C8
\* How often record r occurs in a sequence.
Count(evs, r) == Cardinality({i \in 1..Len(evs) : evs[i] = r})

\* The predicates of the Filter Criteria, each true when unset.
LevelOk(r, f) == f.levels = <<>> \/ \E i \in 1..Len(f.levels) : f.levels[i] = r.level

SubstringOk(text, needle) == needle = "" \/ Contains(text, needle)

EventIdOk(r, f) == f.event_id = <<>> \/ f.event_id = <<r.event_id>>

KeywordOk(r, f) ==
    f.keyword = "" \/ Contains(r.description, f.keyword) \/ Contains(r.raw_xml, f.keyword)

DateOk(r, f) ==
    /\ f.date_from = <<>> \/ f.date_from[1] <= r.time_created \div DayLen
    /\ f.date_to = <<>> \/ r.time_created \div DayLen <= f.date_to[1]

Satisfies(r, f) ==
    /\ LevelOk(r, f)
    /\ SubstringOk(r.source, f.source)
    /\ EventIdOk(r, f)
    /\ SubstringOk(r.user, f.user)
    /\ SubstringOk(r.computer, f.computer)
    /\ KeywordOk(r, f)
    /\ DateOk(r, f)

\* C8: apply_filters keeps a record of the Working Set exactly when it
\* satisfies every active predicate, as often as the Working Set holds it;
\* under the default criteria the Filtered View holds the Working Set's
\* records with their multiplicities.
C8_FilterKeepsExactlyMatches ==
    last = "filtered" =>
        /\ \A r \in FilterRecords :
              Count(filtered_events, r)
                 = IF Satisfies(r, filters) THEN Count(all_events, r) ELSE 0
        /\ \A i \in 1..Len(filtered_events) : filtered_events[i] \in FilterRecords
        /\ filters = DefaultFilters =>
              /\ Len(filtered_events) = Len(all_events)
              /\ \A i \in 1..Len(all_events) :
                    Count(filtered_events, all_events[i]) = Count(all_events, all_events[i])

\* Criteria with keyword, levels and end date active kept one of two records:
\* one whose description is empty, the keyword being in its raw_xml.
C8_Witness ==
    /\ last = "filtered"
    /\ filters.keyword # "" /\ filters.levels # <<>> /\ filters.date_to # <<>>
    /\ Len(all_events) = 2
    /\ Len(filtered_events) = 1
    /\ filtered_events[1].description = ""

\* -------------------------------------------------------------- C9
\* The positions of the <Event> start tags and </Event> end tags of an export.
EventOpens(toks) ==
    {i \in 1..Len(toks) : toks[i].kind = "Start" /\ toks[i].name = "Event"}

EventCloseOf(toks, i) ==
    CHOOSE j \in i..Len(toks) :
        /\ toks[j].kind = "End" /\ toks[j].name = "Event"
        /\ \A m \in i..(j - 1) : ~(toks[m].kind = "End" /\ toks[m].name = "Event")

\* The n-th complete event element of an export, as reader events.
NthEvent(toks, n) ==
    LET i == CHOOSE p \in EventOpens(toks) :
                 Cardinality({q \in EventOpens(toks) : q <= p}) = n
    IN  SubSeq(toks, i, EventCloseOf(toks, i))

\* C9: an imported well-formed XML export of N complete event elements gives
\* N records in document order, each with a non-empty raw_xml that is the
\* text of its event: every nested element, start/end pair or self-closing,
\* with its attributes and text, in document order.
C9_XmlImportRoundTrip ==
    (last = "import" /\ picked # <<>> /\ picked[1].ext = "xml") =>
        LET toks == picked[1].content
            n == Cardinality(EventOpens(toks))
        IN  /\ Len(filtered_events) = n
            /\ \A k \in 1..n :
                  /\ filtered_events[k].raw_xml # ""
                  /\ filtered_events[k].raw_xml = RenderDoc(NthEvent(toks, k))

\* The part of C9 about the number of records alone.
XmlImportCount ==
    (last = "import" /\ picked # <<>> /\ picked[1].ext = "xml") =>
        Len(filtered_events) = Cardinality(EventOpens(picked[1].content))

\* ------------------------------------------------------------- C10
\* The data rows of a delimited file that are well-formed: readable, and of
\* the header's length.
WellFormedRows(rows) ==
    SelectSeq(Tail(rows), LAMBDA r : r.ok /\ Len(r.fields) = Len(rows[1].fields))

\* C10: an imported delimited file gives one record per well-formed data row,
\* in row order, with source "Import", level "Info" and the row's fields
\* joined by ", " as description, whatever the row's length; malformed rows
\* are skipped.
C10_CsvImportRows ==
    (last = "import" /\ picked # <<>> /\ picked[1].ext = "csv") =>
        LET rows == WellFormedRows(picked[1].content)
        IN  /\ Len(filtered_events) = Len(rows)
            /\ \A k \in 1..Len(rows) :
                  /\ filtered_events[k].source = "Import"
                  /\ filtered_events[k].level = "Info"
                  /\ filtered_events[k].description = Join(rows[k].fields, ", ")

\* The same with the description cut to DescMax characters, as the code does.
CsvImportRowsCut ==
    (last = "import" /\ picked # <<>> /\ picked[1].ext = "csv") =>
        LET rows == WellFormedRows(picked[1].content)
        IN  /\ Len(filtered_events) = Len(rows)
            /\ \A k \in 1..Len(rows) :
                  /\ filtered_events[k].source = "Import"
                  /\ filtered_events[k].level = "Info"
                  /\ filtered_events[k].description = Take(Join(rows[k].fields, ", "), DescMax)
                  /\ filtered_events[k].raw_xml = Join(rows[k].fields, ", ")

\* ------------------------------------------------------------- C11
\* The document in the Application channel and the record decoded from it.
DecodedDoc == channels["Application"][1]

Decoded == last = "refresh" /\ Len(channels["Application"]) = 1 /\ Len(all_events) = 1

\* The elements called name in a document, start tags and self-closing ones.
ElementsOf(doc, name) ==
    {i \in 1..Len(doc) : doc[i].kind \in {"Start", "Empty"} /\ doc[i].name = name}

\* The texts of the elements called name that have one.
TextsOf(doc, name) ==
    {doc[i + 1].text : i \in {j \in ElementsOf(doc, name) :
                                 doc[j].kind = "Start" /\ IsTextAt(doc, j + 1)}}

\* The document with every element called name taken out.
RECURSIVE Without(_, _)
Without(doc, name) ==
    IF doc = <<>> THEN <<>>
    ELSE IF Head(doc).kind \in {"Empty", "End"} /\ Head(doc).name = name
         THEN Without(Tail(doc), name)
    ELSE IF Head(doc).kind = "Start" /\ Head(doc).name = name
         THEN Without(IF IsTextAt(doc, 2) THEN Tail(Tail(doc)) ELSE Tail(doc), name)
    ELSE <<Head(doc)>> \o Without(Tail(doc), name)

\* The value of a string of decimal digits.
RECURSIVE DecimalValue(_)
DecimalValue(s) ==
    IF s = "" THEN 0
    ELSE 10 * DecimalValue(SubSeq(s, 1, Len(s) - 1))
         + (CHOOSE d \in 0..9 : ToString(d) = SubSeq(s, Len(s), Len(s)))

\* The fields of a record other than event_id and the raw text.
OtherFields(r) == [r EXCEPT !.event_id = 0, !.raw_xml = ""]

\* C11 (as stated): for a document with at most one EventID element the
\* record's event_id is the value of the element's text when the text is
\* numeric, 0 when the element or its text is missing or not numeric; it lies
\* in 0..65535; and the other fields are those decoded without the element,
\* at some reading of the clock.
C11_EventIdIsTextValue ==
    (Decoded /\ Cardinality(ElementsOf(DecodedDoc, "EventID")) <= 1) =>
        LET r == all_events[1]
            texts == TextsOf(DecodedDoc, "EventID")
        IN  /\ r.event_id \in 0..U16Max
            /\ \A t \in texts : AllDigits(t) => r.event_id = DecimalValue(t)
            /\ \A t \in texts : ~AllDigits(t) => r.event_id = 0
            /\ texts = {} => r.event_id = 0
            /\ \E now \in 0..MaxClock :
                  OtherFields(r) = OtherFields(ParseEvent(Without(DecodedDoc, "EventID"), now))

\* Decimal digits, optionally after a plus sign, denoting at most 65535.
U16Text(t) ==
    LET body == IF t # "" /\ SubSeq(t, 1, 1) = "+" THEN SubSeq(t, 2, Len(t)) ELSE t
    IN  AllDigits(body) /\ Len(body) <= 6 /\ DecimalValue(body) <= U16Max

U16Value(t) == DecimalValue(IF SubSeq(t, 1, 1) = "+" THEN SubSeq(t, 2, Len(t)) ELSE t)

\* C11 (amended): the same with "numeric" meaning digits, optionally after a
\* plus sign, of a value up to 65535; every other text, a larger number
\* included, gives 0.
C11_EventIdInRange ==
    (Decoded /\ Cardinality(ElementsOf(DecodedDoc, "EventID")) <= 1) =>
        LET r == all_events[1]
            texts == TextsOf(DecodedDoc, "EventID")
        IN  /\ r.event_id \in 0..U16Max
            /\ \A t \in texts : U16Text(t) => r.event_id = U16Value(t)
            /\ \A t \in texts : ~U16Text(t) => r.event_id = 0
            /\ texts = {} => r.event_id = 0
            /\ \E now \in 0..MaxClock :
                  OtherFields(r) = OtherFields(ParseEvent(Without(DecodedDoc, "EventID"), now))

\* A document with EventID 65535 and a provider was decoded to that id and
\* that source; one with EventID 65536 would give 0.
C11_Witness ==
    /\ Decoded
    /\ TextsOf(DecodedDoc, "EventID") = {"65535"}
    /\ all_events[1].event_id = U16Max
    /\ all_events[1].source = "svc"

\* ------------------------------------------------------------- C12
\* The severity vocabulary: the names of the codes "1".."5".
SeverityNames ==
    [c \in {"1", "2", "3", "4", "5"} |->
        CASE c = "1" -> "Critical" [] c = "2" -> "Error" [] c = "3" -> "Warning"
          [] c = "4" -> "Information" [] c = "5" -> "Verbose"]

\* C12: for a document with one Level element, the record's level is the
\* severity name of the element's text when the text is "1".."5", and the
\* text itself otherwise.
C12_LevelMappingTotal ==
    (Decoded /\ Cardinality(ElementsOf(DecodedDoc, "Level")) = 1) =>
        \A t \in TextsOf(DecodedDoc, "Level") :
            all_events[1].level = (IF t \in DOMAIN SeverityNames THEN SeverityNames[t] ELSE t)

\* A document with Level 4 next to another element decoded to "Information".
C12_Witness ==
    /\ Decoded
    /\ TextsOf(DecodedDoc, "Level") = {"4"}
    /\ Len(DecodedDoc) > 7
    /\ all_events[1].level = "Information"

\* A document with the unmapped Level text "Error" kept it.
C12_WitnessVerbatim ==
    /\ Decoded
    /\ TextsOf(DecodedDoc, "Level") = {"Error"}
    /\ all_events[1].level = "Error"

\* ------------------------------------------------------------- C13
\* The values element i of a document gives its attribute key.
AttrValues(doc, i, key) ==
    {doc[i].attrs[a].value : a \in {b \in 1..Len(doc[i].attrs) : doc[i].attrs[b].key = key}}

\* C13: for a document with one Provider element carrying Name and/or one
\* Security element carrying UserID, source and user are those attribute
\* values, in the start/end form and in the self-closing form alike.
C13_ProviderAndSecurityAttrs ==
    Decoded =>
        /\ Cardinality(ElementsOf(DecodedDoc, "Provider")) = 1 =>
              \A i \in ElementsOf(DecodedDoc, "Provider") :
                  \A v \in AttrValues(DecodedDoc, i, "Name") : all_events[1].source = v
        /\ Cardinality(ElementsOf(DecodedDoc, "Security")) = 1 =>
              \A i \in ElementsOf(DecodedDoc, "Security") :
                  \A v \in AttrValues(DecodedDoc, i, "UserID") : all_events[1].user = v

StartForm(i) == DecodedDoc[i].kind = "Start"

\* The same for the elements written as a start tag with an end tag only.
ProviderAndSecurityStartForm ==
    Decoded =>
        /\ Cardinality(ElementsOf(DecodedDoc, "Provider")) = 1 =>
              \A i \in ElementsOf(DecodedDoc, "Provider") : StartForm(i) =>
                  \A v \in AttrValues(DecodedDoc, i, "Name") : all_events[1].source = v
        /\ Cardinality(ElementsOf(DecodedDoc, "Security")) = 1 =>
              \A i \in ElementsOf(DecodedDoc, "Security") : StartForm(i) =>
                  \A v \in AttrValues(DecodedDoc, i, "UserID") : all_events[1].user = v

\* ------------------------------------------------------------- C14
\* The typed fields of a record.
TypedFields(r) == [r EXCEPT !.log_name = "", !.raw_xml = ""]

XmlImported == last = "import" /\ picked # <<>> /\ picked[1].ext = "xml"

\* C14: each record the importer builds from an event element has the same
\* event_id, level, source, user, computer, description and time_created as
\* the record the decoder builds from that element.
C14_ImporterMatchesDecoder ==
    XmlImported =>
        \A k \in 1..Len(filtered_events) :
            \E now \in 0..MaxClock :
                TypedFields(filtered_events[k])
                    = TypedFields(ParseEvent(NthEvent(picked[1].content, k), now))

\* The same for the events without a Level element.
ImporterMatchesDecoderButLevel ==
    XmlImported =>
        \A k \in 1..Len(filtered_events) :
            ElementsOf(NthEvent(picked[1].content, k), "Level") = {} =>
                \E now \in 0..MaxClock :
                    TypedFields(filtered_events[k])
                        = TypedFields(ParseEvent(NthEvent(picked[1].content, k), now))

\* ------------------------------------------------------------- C15
\* The records import_file makes of the picked file.
PickedRecords ==
    ImportRecords(picked[1], [i \in 1..ImportNowCount(picked[1]) |-> 0])

\* The Filtered View holds records, and these are the last import's.
ImportShown ==
    /\ filtered_events # <<>>
    /\ \A i \in 1..Len(filtered_events) :
          filtered_events[i].log_name \in {"Imported EVTX", "Imported XML", "Imported CSV"}

\* C15: a successful import leaves exactly the imported records in the
\* Filtered View (whatever the clock read during the import), and every
\* frame that is neither an import nor a refresh, update ticks and
\* Pause/Resume clicks included, leaves them there.
C15_ImportedViewPersists ==
    [][/\ last' = "import" => Untimed(filtered_events') = Untimed(PickedRecords)
       /\ (ImportShown /\ last' = "other") => filtered_events' = filtered_events]_vars

\* The same for the frames that begin in Paused state.
ImportedViewPersistsPaused ==
    [][/\ last' = "import" => Untimed(filtered_events') = Untimed(PickedRecords)
       /\ (ImportShown /\ paused /\ last' = "other") => filtered_events' = filtered_events]_vars

\* ------------------------------------------------------------- C16
\* The record the selected index denotes in a Filtered View, if any.
SelectedRecord(view) ==
    IF selected # <<>> /\ selected[1] < Len(view) THEN <<view[selected[1] + 1]>> ELSE <<>>

\* C16: a frame in Polling state in which the user clicks nothing leaves the
\* selected index denoting the record it denoted before (the view being the
\* live one, not that of an import, which sets the index itself).
C16_SelectionDenotesSameRecord ==
    [][(FrameIdle /\ ~paused /\ SelectedRecord(filtered_events) # <<>> /\ ~ImportShown) =>
          SelectedRecord(filtered_events') = SelectedRecord(filtered_events)]_vars

\* The same for the frames that find the queue empty.
SelectionKeptWhenNothingMerged ==
    [][(FrameIdle /\ ~paused /\ SelectedRecord(filtered_events) # <<>>
            /\ queue = <<>> /\ ~ImportShown) =>
          SelectedRecord(filtered_events') = SelectedRecord(filtered_events)]_vars

\* ------------------------------------------------------------- C17
\* Tick k has records in the Working Set.
TickInWorkingSet(k) == \E i \in 1..Len(allTick) : allTick[i] = k

\* C17: when a poll tick returned the records the tick before it returned
\* (the same lines, read again) and those are in the Working Set, the later
\* tick has added none.
C17_RepeatedPollAddsNothing ==
    \A k \in 2..polls :
        (/\ batches[k] # <<>>
         /\ Untimed(batches[k]) = Untimed(batches[k - 1])
         /\ TickInWorkingSet(k - 1)) => ~TickInWorkingSet(k)

====
